---------------------------- MODULE Spec2Model ----------------------------
(***************************************************************************)
(* A model of app.py: the profile-submission handler save_profile, the     *)
(* filename derivation make_filename with its helpers sanitize_stream and  *)
(* session_filename_piece, and the records directory the handler appends   *)
(* to.                                                                     *)
(*                                                                         *)
(* A text (a Python str) is a sequence of characters, each character a     *)
(* one-character string; the one non-ASCII character of the model, ARABIC- *)
(* INDIC DIGIT THREE, is written "U0663".  A CSV file is the sequence of   *)
(* the rows written to it; a row is a sequence of texts.  The values of a  *)
(* payload are texts, as the service's data model has them.                *)
(*                                                                         *)
(* Three specifications:                                                   *)
(*   Spec      requests handled one after another, each call of            *)
(*             save_profile one step;                                      *)
(*   SpecConc  two request threads whose steps (existence check, open,     *)
(*             header write, row write) interleave;                        *)
(*   SpecFn    the pure functions applied to bounded inputs.               *)
(***************************************************************************)
EXTENDS Integers, Sequences, FiniteSets, TLC

VARIABLES
    files,      \* records directory: filename -> sequence of rows
    now,        \* the clock datetime.utcnow() reads; one tick per request
    req,        \* Spec: the body of the request handled last
    resp,       \* Spec: the response returned last
    okCount,    \* Spec: filename -> number of success responses naming it
    pc,         \* SpecConc: thread -> position in save_profile
    loc,        \* SpecConc: thread -> its locals (filename, row, write_header)
    presp,      \* SpecConc: thread -> the response it returned last
    fn_in,      \* SpecFn: the arguments (stream, year, session)
    fn_out      \* SpecFn: the function applied and its result

vars == <<files, now, req, resp, okCount, pc, loc, presp, fn_in, fn_out>>

----------------------------------------------------------------------------
(* Bounds *)

\* requests received in one behaviour of Spec and SpecConc
MaxRequests == 3

\* len(stream) + len(year) + len(session) of the enumerated inputs of SpecFn
MaxTotalLen == 5

----------------------------------------------------------------------------
(* Characters and texts *)

LowerLetters == <<"a","b","c","d","e","f","g","h","i","j","k","l","m",
                  "n","o","p","q","r","s","t","u","v","w","x","y","z">>

UpperLetters == <<"A","B","C","D","E","F","G","H","I","J","K","L","M",
                  "N","O","P","Q","R","S","T","U","V","W","X","Y","Z">>

AsciiDigits == <<"0","1","2","3","4","5","6","7","8","9">>

Range(s) == { s[i] : i \in 1..Len(s) }

AsciiLetterSet == Range(LowerLetters) \cup Range(UpperLetters)

AsciiDigitSet == Range(AsciiDigits)

IsAsciiLetter(c) == c \in AsciiLetterSet

IsAsciiDigit(c) == c \in AsciiDigitSet

\* str.isdigit() of one character: the ASCII digits and the other Unicode digits
IsDigitChar(c) == IsAsciiDigit(c) \/ c = "U0663"

\* str.isdigit(): non-empty and every character a digit
isdigit(s) == Len(s) > 0 /\ \A i \in 1..Len(s) : IsDigitChar(s[i])

UpperOf == [c \in Range(LowerLetters) |->
              UpperLetters[CHOOSE i \in 1..Len(LowerLetters) : LowerLetters[i] = c]]

UpperChar(c) == IF c \in DOMAIN UpperOf THEN UpperOf[c] ELSE c

\* str.upper()
upper(s) == [i \in 1..Len(s) |-> UpperChar(s[i])]

\* str.replace(a, b) for one-character a and b
replace(s, a, b) == [i \in 1..Len(s) |-> IF s[i] = a THEN b ELSE s[i]]

\* str.split(sep) for a one-character sep: always at least one part
RECURSIVE split(_, _)
split(s, sep) ==
    IF \A i \in 1..Len(s) : s[i] # sep
    THEN <<s>>
    ELSE LET k == CHOOSE i \in 1..Len(s) :
                     s[i] = sep /\ \A j \in 1..(i - 1) : s[j] # sep
         IN  <<SubSeq(s, 1, k - 1)>> \o split(SubSeq(s, k + 1, Len(s)), sep)

\* s[-2:]
LastTwo(s) == IF Len(s) <= 2 THEN s ELSE SubSeq(s, Len(s) - 1, Len(s))

\* the character classes of the three regular expressions
StreamKeep(c) == IsAsciiLetter(c) \/ IsAsciiDigit(c) \/ c = "_"

SessionKeep(c) == IsAsciiDigit(c) \/ c = "-"

FilenameKeep(c) == IsAsciiLetter(c) \/ IsAsciiDigit(c) \/ c \in {"_", "-", "."}

----------------------------------------------------------------------------
(* The filename derivation *)

ORDINAL == (<<"1">> :> <<"1","s","t">>) @@ (<<"2">> :> <<"2","n","d">>)
             @@ (<<"3">> :> <<"3","r","d">>) @@ (<<"4">> :> <<"4","t","h">>)

OtherStream == <<"O","T","H","E","R">>

\* a plausible slip: the space is stripped with the other characters
sanitize_stream_nospace(stream) ==
    LET s == SelectSeq(stream, StreamKeep)
    IN  IF s # <<>> THEN upper(s) ELSE OtherStream

sanitize_stream(stream) ==
    LET s == SelectSeq(replace(stream, " ", "_"), StreamKeep)
    IN  IF s # <<>> THEN upper(s) ELSE OtherStream

\* a plausible slip: end[:2] for end[-2:]
session_filename_piece_firsttwo(session) ==
    LET parts == split(session, "-")
    IN  IF Len(parts) = 2 /\ isdigit(parts[1]) /\ isdigit(parts[2])
        THEN parts[1] \o <<"-">> \o SubSeq(parts[2], 1, IF Len(parts[2]) < 2 THEN Len(parts[2]) ELSE 2)
        ELSE SelectSeq(session, SessionKeep)

session_filename_piece(session) ==
    LET parts == split(session, "-")
    IN  IF Len(parts) = 2 /\ isdigit(parts[1]) /\ isdigit(parts[2])
        THEN LET start     == parts[1]
                 end       == parts[2]
                 end_short == LastTwo(end)
             IN  start \o <<"-">> \o end_short
        ELSE SelectSeq(session, SessionKeep)

\* a plausible slip: the final safety pass left out
make_filename_nostrip(stream, year, session) ==
    LET s         == sanitize_stream(stream)
        ordinal   == IF year \in DOMAIN ORDINAL THEN ORDINAL[year]
                     ELSE year \o <<"t","h">>
        sess_piece == session_filename_piece(session)
    IN  s \o <<"_">> \o ordinal \o <<"_">> \o sess_piece \o <<".","c","s","v">>

make_filename(stream, year, session) ==
    LET s         == sanitize_stream(stream)
        ordinal   == IF year \in DOMAIN ORDINAL THEN ORDINAL[year]
                     ELSE year \o <<"t","h">>
        sess_piece == session_filename_piece(session)
        filename  == s \o <<"_">> \o ordinal \o <<"_">> \o sess_piece
                       \o <<".","c","s","v">>
    IN  SelectSeq(filename, FilenameKeep)

----------------------------------------------------------------------------
(* The request handler: its constants and helpers *)

required == <<"name", "email", "roll", "birthdate", "registration",
              "stream", "session", "year", "course">>

headers == << <<"t","i","m","e","s","t","a","m","p">>,
              <<"n","a","m","e">>,
              <<"e","m","a","i","l">>,
              <<"r","o","l","l">>,
              <<"b","i","r","t","h","d","a","t","e">>,
              <<"r","e","g","i","s","t","r","a","t","i","o","n">>,
              <<"s","t","r","e","a","m">>,
              <<"s","e","s","s","i","o","n">>,
              <<"y","e","a","r">>,
              <<"c","o","u","r","s","e">> >>

\* digit value for int(): the decimal digits, ASCII or not
DigitValOf == [c \in AsciiDigitSet |->
                 (CHOOSE i \in 1..Len(AsciiDigits) : AsciiDigits[i] = c) - 1]

DigitVal(c) == IF c = "U0663" THEN 3 ELSE DigitValOf[c]

\* str.strip() of the spaces int() ignores at both ends
RECURSIVE strip(_)
strip(s) ==
    IF s = <<>> THEN s
    ELSE IF Head(s) = " " THEN strip(Tail(s))
    ELSE IF s[Len(s)] = " " THEN strip(SubSeq(s, 1, Len(s) - 1))
    ELSE s

\* the digits of an int() literal after its blanks and sign
IntBody(s) ==
    LET t == strip(s)
    IN  IF t # <<>> /\ Head(t) = "+" THEN Tail(t) ELSE t

\* int(s) does not raise ValueError: blanks, an optional sign, then digits
\* with single underscores between them
ParsesInt(s) ==
    LET b == IntBody(s)
    IN  /\ b # <<>>
        /\ \A i \in 1..Len(b) : IsDigitChar(b[i]) \/ b[i] = "_"
        /\ b[1] # "_" /\ b[Len(b)] # "_"
        /\ \A i \in 1..(Len(b) - 1) : ~(b[i] = "_" /\ b[i + 1] = "_")

RECURSIVE DigitsVal(_)
DigitsVal(d) ==
    IF d = <<>> THEN 0
    ELSE 10 * DigitsVal(SubSeq(d, 1, Len(d) - 1)) + DigitVal(d[Len(d)])

\* int(s) for a text that parses
IntVal(s) == DigitsVal(SelectSeq(IntBody(s), IsDigitChar))

\* the decimal digits of a clock reading
RECURSIVE Digits(_)
Digits(n) ==
    IF n < 10 THEN <<AsciiDigits[n + 1]>>
    ELSE Digits(n \div 10) \o <<AsciiDigits[(n % 10) + 1]>>

\* datetime.utcnow().isoformat(): a text fixed by the clock reading, all of
\* it digits and separators (never the header's "timestamp")
isoformat(t) == <<"T">> \o Digits(t)

\* request.get_json(): the body's fields, None, or an HTTP error raised by
\* the framework.  lib is the framework generation: "legacy" returns None for
\* a body whose content type is not JSON, "strict" raises 415.
get_json(body, lib) ==
    CASE body.kind = "object"       ->
            [raised |-> 0, none |-> FALSE, dict |-> TRUE, value |-> body.data]
      [] body.kind = "nonobject"    ->
            [raised |-> 0, none |-> FALSE, dict |-> FALSE, value |-> <<>>]
      [] body.kind = "null"         ->
            [raised |-> 0, none |-> TRUE, dict |-> FALSE, value |-> <<>>]
      [] body.kind = "malformed"    ->
            [raised |-> 400, none |-> FALSE, dict |-> FALSE, value |-> <<>>]
      [] body.kind = "no_json_type" ->
            IF lib = "legacy"
            THEN [raised |-> 0, none |-> TRUE, dict |-> FALSE, value |-> <<>>]
            ELSE [raised |-> 415, none |-> FALSE, dict |-> FALSE, value |-> <<>>]

\* data.get(k) is truthy
Truthy(data, k) == k \in DOMAIN data /\ data[k] # <<>>

\* a plausible slip: only absent keys count, an empty string passes
missing_absent_only(data) ==
    LET Absent(k) == k \notin DOMAIN data
    IN  SelectSeq(required, Absent)

\* [k for k in required if not data.get(k)]
missing(data) ==
    LET Falsy(k) == ~Truthy(data, k)
    IN  SelectSeq(required, Falsy)

\* a plausible slip: s1 < s0 for s1 <= s0
SessionRejected_strict(session_val) ==
    LET s_parts == split(session_val, "-")
    IN  /\ Len(s_parts) = 2
        /\ ParsesInt(s_parts[1]) /\ ParsesInt(s_parts[2])
        /\ IntVal(s_parts[2]) < IntVal(s_parts[1])

\* the try block of the session check returns the 400
SessionRejected(session_val) ==
    LET s_parts == split(session_val, "-")
    IN  /\ Len(s_parts) = 2
        /\ ParsesInt(s_parts[1]) /\ ParsesInt(s_parts[2])
        /\ IntVal(s_parts[2]) <= IntVal(s_parts[1])

\* a plausible slip: session and year written in each other's column
BuildRow_swapped(data, t) ==
    <<isoformat(t), data["name"], data["email"], data["roll"],
      data["birthdate"], data["registration"], data["stream"],
      data["year"], data["session"], data["course"]>>

\* the row list of save_profile
BuildRow(data, t) ==
    <<isoformat(t), data["name"], data["email"], data["roll"],
      data["birthdate"], data["registration"], data["stream"],
      data["session"], data["year"], data["course"]>>

\* the responses
Success(filename) ==
    [status |-> 200, kind |-> "success", file |-> filename, fields |-> <<>>]

MissingFields(m) ==
    [status |-> 400, kind |-> "missing", file |-> <<>>, fields |-> m]

SessionRange ==
    [status |-> 400, kind |-> "session_range", file |-> <<>>, fields |-> <<>>]

StorageError ==
    [status |-> 500, kind |-> "storage", file |-> <<>>, fields |-> <<>>]

\* an exception save_profile does not catch: the framework's own error page
FrameworkError(code) ==
    [status |-> code, kind |-> "framework", file |-> <<>>, fields |-> <<>>]

NoResponse ==
    [status |-> 0, kind |-> "none", file |-> <<>>, fields |-> <<>>]

----------------------------------------------------------------------------
(* The records directory *)

\* a plausible slip: the check looks at a path that is never there
exists_never(fs, path) == FALSE

\* os.path.exists(path)
exists(fs, path) == path \in DOMAIN fs

\* open(path, mode="a"): creates the file when it is not there
open_append(fs, path) == IF path \in DOMAIN fs THEN fs ELSE (path :> <<>>) @@ fs

\* a plausible slip: the row goes in front
writerow_front(fs, path, row) == [fs EXCEPT ![path] = <<row>> \o @]

\* writer.writerow(row) on a file opened for append
writerow(fs, path, row) == [fs EXCEPT ![path] = Append(@, row)]

----------------------------------------------------------------------------
(* The inputs *)

BTechCS == <<"B",".","T","e","c","h"," ","C","S">>

Bangs == <<"!","!","!">>

Y2023_2026 == <<"2","0","2","3","-","2","0","2","6">>

Y2025_2023 == <<"2","0","2","5","-","2","0","2","3">>

Y2023_2023 == <<"2","0","2","3","-","2","0","2","3">>

\* int() ignores the leading blank, str.isdigit() does not
Blank2026_2023 == <<" ","2","0","2","6","-","2","0","2","3">>

AbcDef == <<"a","b","c","-","d","e","f">>

ThreeYears == <<"2","0","2","3","-","2","0","2","6","-","2","0","2","7">>

Base ==
    [name |-> <<"A">>, email |-> <<"e">>, roll |-> <<"1">>,
     birthdate |-> <<"d">>, registration |-> <<"r">>, stream |-> BTechCS,
     session |-> Y2023_2026, year |-> <<"2">>, course |-> <<"c">>]

With(data, k, v) == [data EXCEPT ![k] = v]

\* the payload without the keys of S
Drop(data, S) == [k \in (DOMAIN data) \ S |-> data[k]]

\* the payload with the keys of S holding the empty string
Blank(data, S) == [k \in DOMAIN data |-> IF k \in S THEN <<>> ELSE data[k]]

\* payloads that pass both validations
ValidPayloads ==
    { Base,
      With(Base, "name", <<"B">>),
      With(Base, "stream", Bangs),
      With(Base, "year", <<"7">>),
      With(Base, "session", AbcDef),
      With(Base, "session", ThreeYears) }

\* payloads whose session fails the range check
RangePayloads ==
    { With(Base, "session", Y2025_2023),
      With(Base, "session", Y2023_2023),
      With(Base, "session", Blank2026_2023) }

\* payloads with required fields absent or empty
MissingPayloads ==
    { Drop(Base, {k}) : k \in Range(required) }
      \cup { Blank(Base, {k}) : k \in {"name", "session", "course"} }
      \cup { Drop(Base, Range(required)),
             Blank(Base, Range(required)),
             Drop(Base, {"email", "year"}),
             Blank(Drop(Base, {"roll"}), {"name", "stream"}),
             Drop(With(Base, "session", Y2025_2023), {"email"}) }

Object(data) == [kind |-> "object", data |-> data]

Special(kind) == [kind |-> kind, data |-> <<>>]

NoBody == Special("none")

Bodies ==
    { Object(d) : d \in ValidPayloads \cup RangePayloads \cup MissingPayloads }
      \cup { Special(k) : k \in {"null", "malformed", "no_json_type", "nonobject"} }

\* the framework generations; they differ only on a body without a JSON
\* content type
Libs(body) ==
    IF body.kind = "no_json_type" THEN {"legacy", "strict"} ELSE {"legacy"}

\* where the write raises: nowhere ("ok"), in open with no file created
\* ("open_fail"), after open with nothing written yet ("header_fail"), or in
\* the data row with the header, when due, written ("row_fail"); only a
\* request that passes validation reaches the write
Outcomes(body) ==
    IF body.kind = "object" /\ body.data \in ValidPayloads
    THEN {"ok", "open_fail", "header_fail", "row_fail"}
    ELSE {"ok"}

----------------------------------------------------------------------------
(* Spec: the requests handled one after another *)

OkCountOf(f) == IF f \in DOMAIN okCount THEN okCount[f] ELSE 0

\* lines 95-105: the files and the response, the write failing as outcome says
Persist(fs, filename, row, outcome) ==
    LET write_header == ~exists(fs, filename)
        opened   == open_append(fs, filename)
        withHead == IF write_header THEN writerow(opened, filename, headers)
                    ELSE opened
        withRow  == writerow(withHead, filename, row)
    IN  CASE outcome = "ok"          -> [files |-> withRow, resp |-> Success(filename)]
          [] outcome = "open_fail"   -> [files |-> fs, resp |-> StorageError]
          [] outcome = "header_fail" -> [files |-> opened, resp |-> StorageError]
          [] outcome = "row_fail"    -> [files |-> withHead, resp |-> StorageError]

\* one call of save_profile, from the request to the response
Handle(fs, t, body, lib, outcome) ==
    LET got == get_json(body, lib)
    IN  IF got.raised # 0
        THEN [files |-> fs, resp |-> FrameworkError(got.raised)]
        ELSE IF ~got.none /\ ~got.dict
        THEN [files |-> fs, resp |-> FrameworkError(500)]
        ELSE LET data == IF got.none THEN <<>> ELSE got.value
             IN  IF missing(data) # <<>>
                 THEN [files |-> fs, resp |-> MissingFields(missing(data))]
                 ELSE IF SessionRejected(data["session"])
                 THEN [files |-> fs, resp |-> SessionRange]
                 ELSE Persist(fs,
                              make_filename(data["stream"], data["year"],
                                            data["session"]),
                              BuildRow(data, t), outcome)

save_profile(body, lib, outcome) ==
    /\ now < MaxRequests
    /\ \E r \in {Handle(files, now, body, lib, outcome)} :
           /\ files' = r.files
           /\ resp' = r.resp
           /\ okCount' = IF r.resp.status = 200
                         THEN (r.resp.file :> (OkCountOf(r.resp.file) + 1)) @@ okCount
                         ELSE okCount
    /\ req' = body
    /\ now' = now + 1
    /\ UNCHANGED <<pc, loc, presp, fn_in, fn_out>>

Procs == {"p1", "p2"}

NoLocals == [filename |-> <<>>, row |-> <<>>, write_header |-> FALSE]

NoInput == [stream |-> <<>>, year |-> <<>>, session |-> <<>>]

NoOutput == [op |-> "none", val |-> <<>>]

Init ==
    /\ files = <<>>
    /\ now = 0
    /\ req = NoBody
    /\ resp = NoResponse
    /\ okCount = <<>>
    /\ pc = [p \in Procs |-> "idle"]
    /\ loc = [p \in Procs |-> NoLocals]
    /\ presp = [p \in Procs |-> NoResponse]
    /\ fn_in = NoInput
    /\ fn_out = NoOutput

Next ==
    \E body \in Bodies :
        \E lib \in Libs(body), outcome \in Outcomes(body) :
            save_profile(body, lib, outcome)

Spec == Init /\ [][Next]_vars

----------------------------------------------------------------------------
(* SpecConc: two request threads, their steps interleaved *)

ConcBodies ==
    { Object(Base),
      Object(With(Base, "name", <<"B">>)),
      Object(With(Base, "stream", Bangs)),
      Object(Drop(Base, {"email"})),
      Object(With(Base, "session", Y2025_2023)),
      Special("malformed") }

Goto(p, label) == pc' = [pc EXCEPT ![p] = label]

Return(p, response) ==
    /\ presp' = [presp EXCEPT ![p] = response]
    /\ Goto(p, "idle")

\* lines 53-93: the request is parsed and validated, the filename derived
\* and the row built; none of it touches the records directory
Receive(p, body, lib) ==
    /\ pc[p] = "idle"
    /\ now < MaxRequests
    /\ now' = now + 1
    /\ LET got  == get_json(body, lib)
           data == IF got.none THEN <<>> ELSE got.value
       IN  IF got.raised # 0
           THEN Return(p, FrameworkError(got.raised)) /\ UNCHANGED loc
           ELSE IF ~got.none /\ ~got.dict
           THEN Return(p, FrameworkError(500)) /\ UNCHANGED loc
           ELSE IF missing(data) # <<>>
           THEN Return(p, MissingFields(missing(data))) /\ UNCHANGED loc
           ELSE IF SessionRejected(data["session"])
           THEN Return(p, SessionRange) /\ UNCHANGED loc
           ELSE /\ loc' = [loc EXCEPT ![p] =
                             [filename |-> make_filename(data["stream"],
                                               data["year"], data["session"]),
                              row |-> BuildRow(data, now),
                              write_header |-> FALSE]]
                /\ Goto(p, "exists")
                /\ UNCHANGED presp
    /\ UNCHANGED <<files, req, resp, okCount, fn_in, fn_out>>

\* line 95: write_header = not os.path.exists(path)
CheckExists(p) ==
    /\ pc[p] = "exists"
    /\ loc' = [loc EXCEPT ![p].write_header = ~exists(files, loc[p].filename)]
    /\ Goto(p, "open")
    /\ UNCHANGED <<files, now, req, resp, okCount, presp, fn_in, fn_out>>

\* line 97: open(path, mode="a")
Open(p) ==
    /\ pc[p] = "open"
    /\ files' = open_append(files, loc[p].filename)
    /\ Goto(p, IF loc[p].write_header THEN "header" ELSE "row")
    /\ UNCHANGED <<now, req, resp, okCount, loc, presp, fn_in, fn_out>>

\* line 100: writer.writerow(headers)
WriteHeader(p) ==
    /\ pc[p] = "header"
    /\ files' = writerow(files, loc[p].filename, headers)
    /\ Goto(p, "row")
    /\ UNCHANGED <<now, req, resp, okCount, loc, presp, fn_in, fn_out>>

\* lines 101-105: writer.writerow(row), the file closed, the success returned
WriteRow(p) ==
    /\ pc[p] = "row"
    /\ files' = writerow(files, loc[p].filename, loc[p].row)
    /\ Return(p, Success(loc[p].filename))
    /\ UNCHANGED <<now, req, resp, okCount, loc, fn_in, fn_out>>

\* lines 102-103: open or a write raises; nothing is cleaned up
WriteFails(p) ==
    /\ pc[p] \in {"open", "header", "row"}
    /\ Return(p, StorageError)
    /\ UNCHANGED <<files, now, req, resp, okCount, loc, fn_in, fn_out>>

ConcNext ==
    \E p \in Procs :
        \/ \E body \in ConcBodies : \E lib \in Libs(body) : Receive(p, body, lib)
        \/ CheckExists(p)
        \/ Open(p)
        \/ WriteHeader(p)
        \/ WriteRow(p)
        \/ WriteFails(p)

SpecConc == Init /\ [][ConcNext]_vars

----------------------------------------------------------------------------
(* SpecFn: the pure functions on bounded inputs *)

\* the characters the enumerated arguments are made of
StreamChars == {"a", " ", "/", "."}

YearChars == {"1", "/", "."}

SessionChars == {"1", "2", "-", "a", "/"}

CompSci == <<"C","o","m","p"," ","S","c","i","!">>

Y23_26 == <<"2","3","-","2","6">>

Bad == <<"b","a","d">>

\* both parts pass str.isdigit(), the last character is not an ASCII digit
Y2023_202x == <<"2","0","2","3","-","2","0","2","U0663">>

ExampleInputs ==
    { [stream |-> s, year |-> y, session |-> e] :
        s \in {BTechCS, CompSci, Bangs, <<"\\",".",".">>},
        y \in {<<"1">>, <<"2">>, <<"3">>, <<"4">>, <<"7">>, <<"2","1">>},
        e \in {Y2023_2026, Y23_26, Bad, AbcDef, ThreeYears, Y2025_2023,
               Blank2026_2023, Y2023_202x} }

FnInit ==
    /\ files = <<>>
    /\ now = 0
    /\ req = NoBody
    /\ resp = NoResponse
    /\ okCount = <<>>
    /\ pc = [p \in Procs |-> "idle"]
    /\ loc = [p \in Procs |-> NoLocals]
    /\ presp = [p \in Procs |-> NoResponse]
    /\ fn_out = NoOutput
    /\ \/ fn_in \in ExampleInputs
       \/ \E i \in 0..MaxTotalLen :
            \E j \in 0..(MaxTotalLen - i) :
              \E k \in 0..(MaxTotalLen - i - j) :
                \E s \in [1..i -> StreamChars], y \in [1..j -> YearChars],
                   e \in [1..k -> SessionChars] :
                    fn_in = [stream |-> s, year |-> y, session |-> e]

call_sanitize_stream ==
    /\ fn_out.op = "none"
    /\ fn_out' = [op |-> "sanitize_stream", val |-> sanitize_stream(fn_in.stream)]
    /\ UNCHANGED <<files, now, req, resp, okCount, pc, loc, presp, fn_in>>

call_session_filename_piece ==
    /\ fn_out.op = "none"
    /\ fn_out' = [op |-> "session_filename_piece",
                  val |-> session_filename_piece(fn_in.session)]
    /\ UNCHANGED <<files, now, req, resp, okCount, pc, loc, presp, fn_in>>

call_make_filename ==
    /\ fn_out.op = "none"
    /\ fn_out' = [op |-> "make_filename",
                  val |-> make_filename(fn_in.stream, fn_in.year, fn_in.session)]
    /\ UNCHANGED <<files, now, req, resp, okCount, pc, loc, presp, fn_in>>

FnNext ==
    \/ call_sanitize_stream
    \/ call_session_filename_piece
    \/ call_make_filename

SpecFn == FnInit /\ [][FnNext]_vars

----------------------------------------------------------------------------
(* The filename derivation: C5, C6, C9 *)

FullAssemblyInput ==
    [stream |-> BTechCS, year |-> <<"2">>, session |-> Y2023_2026]

\* C5 as claimed: make_filename("B.Tech CS", "2", "2023-2026") returns
\* "BTECHCS_2nd_2023-26.csv", the stream component without an underscore.
FullAssemblyAsClaimed ==
    (fn_out.op = "make_filename" /\ fn_in = FullAssemblyInput)
        => fn_out.val = <<"B","T","E","C","H","C","S","_","2","n","d","_",
                          "2","0","2","3","-","2","6",".","c","s","v">>

\* C5 as amended: make_filename("B.Tech CS", "2", "2023-2026") returns
\* "BTECH_CS_2nd_2023-26.csv": the space of the stream becomes an underscore,
\* the period is stripped.
FullAssembly ==
    (fn_out.op = "make_filename" /\ fn_in = FullAssemblyInput)
        => fn_out.val = <<"B","T","E","C","H","_","C","S","_","2","n","d","_",
                          "2","0","2","3","-","2","6",".","c","s","v">>

FullAssemblyWitness ==
    fn_out.op = "make_filename" /\ fn_in = FullAssemblyInput

EndsInCsv(f) ==
    Len(f) >= 4 /\ SubSeq(f, Len(f) - 3, Len(f)) = <<".","c","s","v">>

\* C6: for every (stream, year, session), make_filename returns a non-empty
\* text that ends in ".csv" and is made only of ASCII letters, digits,
\* underscore, hyphen and period, so of no "/" and no "\".
FilenameSafe ==
    fn_out.op = "make_filename" =>
        /\ fn_out.val # <<>>
        /\ EndsInCsv(fn_out.val)
        /\ \A i \in 1..Len(fn_out.val) :
              /\ \/ fn_out.val[i] \in AsciiLetterSet
                 \/ fn_out.val[i] \in AsciiDigitSet
                 \/ fn_out.val[i] \in {"_", "-", "."}
              /\ fn_out.val[i] \notin {"/", "\\"}

\* a stream of a path separator, a year of dots, an empty session
FilenameSafeWitness ==
    /\ fn_out.op = "make_filename"
    /\ fn_in = [stream |-> <<"/">>, year |-> <<".",".">>, session |-> <<>>]

\* the positions of the hyphens of a text
Hyphens(s) == { i \in 1..Len(s) : s[i] = "-" }

----------------------------------------------------------------------------
(* The handler, requests one after another: C1, C3, C4, C7, C8, C10 *)

\* this step is a call of save_profile
Called == now' = now + 1

\* the required fields a payload lacks: absent, or an empty string
MissingSet(data) ==
    { k \in Range(required) : k \notin DOMAIN data \/ data[k] = <<>> }

IndexIn(seq, x) == CHOOSE i \in 1..Len(seq) : seq[i] = x

\* seq lists exactly the members of S, once each, in the order of required
ListsInRequiredOrder(seq, S) ==
    /\ Range(seq) = S
    /\ Len(seq) = Cardinality(S)
    /\ \A i, j \in 1..Len(seq) :
          i < j => IndexIn(required, seq[i]) < IndexIn(required, seq[j])

\* the data row of a payload received at clock reading t
RowOf(data, t) ==
    <<isoformat(t)>> \o [i \in 1..Len(required) |-> data[required[i]]]

MissingRejected ==
    [][(Called /\ req'.kind = "object" /\ MissingSet(req'.data) # {}) =>
          /\ resp'.status = 400
          /\ resp'.kind = "missing"
          /\ ListsInRequiredOrder(resp'.fields, MissingSet(req'.data))
          /\ files' = files]_vars

\* email absent and year absent, rejected with files already in the directory
MissingRejectedWitness ==
    /\ req = Object(Drop(Base, {"email", "year"}))
    /\ resp.kind = "missing"
    /\ resp.fields = <<"email", "year">>
    /\ DOMAIN files # {}

\* the session has one hyphen and int() parses both sides
TwoIntegers(s) ==
    /\ Cardinality(Hyphens(s)) = 1
    /\ \E h \in Hyphens(s) :
          ParsesInt(SubSeq(s, 1, h - 1)) /\ ParsesInt(SubSeq(s, h + 1, Len(s)))

StartYear(s) == IntVal(SubSeq(s, 1, (CHOOSE h \in Hyphens(s) : TRUE) - 1))

EndYear(s) == IntVal(SubSeq(s, (CHOOSE h \in Hyphens(s) : TRUE) + 1, Len(s)))

\* C4: with all nine fields present, a session of two integers whose second
\* is not greater than its first is answered 400 and no file is created or
\* modified; with the second greater, or with a session that is not two
\* integers, the request goes on to the write (success or storage error).
SessionRangeCheck ==
    [][(Called /\ req'.kind = "object" /\ MissingSet(req'.data) = {}) =>
          LET s == req'.data["session"]
          IN  IF TwoIntegers(s) /\ EndYear(s) <= StartYear(s)
              THEN /\ resp'.status = 400
                   /\ resp'.kind = "session_range"
                   /\ files' = files
              ELSE /\ resp'.kind \in {"success", "storage"}
                   /\ resp'.kind = "success" =>
                         resp'.file = make_filename(req'.data["stream"],
                                          req'.data["year"], s)]_vars

\* "2023-2023" rejected with files already in the directory
SessionRangeCheckWitness ==
    /\ req = Object(With(Base, "session", Y2023_2023))
    /\ resp.kind = "session_range"
    /\ DOMAIN files # {}

\* C7: a successful call adds, at the end of the file the response names,
\* the row <timestamp, name, email, roll, birthdate, registration, stream,
\* session, year, course> of the submitted values, after the header when the
\* file did not exist; the rows the file held stay in front, every other
\* file is unchanged, and the file named is the derived filename.
SuccessEffect ==
    [][(Called /\ resp'.status = 200) =>
          LET f    == resp'.file
              d    == req'.data
              row  == RowOf(d, now)
              old  == IF f \in DOMAIN files THEN files[f] ELSE <<headers>>
          IN  /\ f = make_filename(d["stream"], d["year"], d["session"])
              /\ DOMAIN files' = DOMAIN files \cup {f}
              /\ files'[f] = old \o <<row>>
              /\ \A g \in DOMAIN files : g # f => files'[g] = files[g]]_vars

\* a row added to a file that held rows, with another file in the directory
SuccessEffectWitness ==
    /\ resp.status = 200
    /\ Len(files[resp.file]) >= 3
    /\ Cardinality(DOMAIN files) >= 2

\* C8 as claimed: a malformed body, or a body that is absent or not JSON, is
\* answered with the 400 that lists all nine fields as missing, and no file
\* is created or modified.
EmptyBodyRejected ==
    [][(Called /\ req'.kind \in {"malformed", "no_json_type"}) =>
          /\ resp' = MissingFields(required)
          /\ files' = files]_vars

\* C10 as claimed: every record file that holds a data row has the header as
\* its first row.
HeaderBeforeData ==
    \A f \in DOMAIN files :
        (\E i \in 1..Len(files[f]) : files[f][i] # headers) =>
            files[f][1] = headers

----------------------------------------------------------------------------
(* The handler, requests interleaved: C2 *)

\* C2 as claimed: each record file has the header as its first row and a
\* submission record as every later row.
FileLayout ==
    \A f \in DOMAIN files :
        files[f] # <<>> =>
            /\ files[f][1] = headers
            /\ \A i \in 2..Len(files[f]) : files[f][i] # headers

\* a submission record of file f: ten columns, the timestamp of a request
\* received, and a stream, year and session that derive f
RecordOf(row, f) ==
    /\ Len(row) = Len(headers)
    /\ \E t \in 0..(now - 1) : row[1] = isoformat(t)
    /\ \A i \in 2..Len(row) : row[i] # <<>>
    /\ make_filename(row[7], row[9], row[8]) = f

\* C2 as amended: under any interleaving every row of every record file is
\* the header or a submission record whose stream, year and session derive
\* that file's name; the header need not be first nor single.
RowsBelong ==
    \A f \in DOMAIN files :
        \A i \in 1..Len(files[f]) :
            files[f][i] = headers \/ RecordOf(files[f][i], f)

\* two requests both found the file absent: header, record, header, record
RowsBelongWitness ==
    \E f \in DOMAIN files :
        /\ Len(files[f]) = 4
        /\ files[f][1] = headers /\ files[f][3] = headers
        /\ RecordOf(files[f][2], f) /\ RecordOf(files[f][4], f)

============================================================================
